---- MODULE Spec2Model ----
(***************************************************************************)
(* Model of MacaroniAudioDriver (MacaroniAudioDriver.cpp): the lifecycle   *)
(* methods init / Start / Stop / free and the host notification handlers,  *)
(* over a reference-counted heap of AudioDriverKit objects.                *)
(***************************************************************************)
EXTENDS Integers, Sequences, FiniteSets, TLC

(* ---- bounds of the model ---- *)
MaxStarts == 1
MaxStops == 2

(* ---- program constants ---- *)
kSampleRate == 48000
kNumChannels == 2
kBitsPerChannel == 32
kBytesPerFrame == (kBitsPerChannel \div 8) * kNumChannels
kBufferFrames == 512

kDeviceObjectID == 1
kInputStreamObjectID == 2
kOutputStreamObjectID == 3
kVolumeControlObjectID == 4
kMuteControlObjectID == 5

(* kern_return_t values: success, the code Start returns itself, and one   *)
(* other failure code a callee may hand back.                              *)
kIOReturnSuccess == "kIOReturnSuccess"
kIOReturnNoMemory == "kIOReturnNoMemory"
kIOReturnError == "kIOReturnError"
KernReturn == {kIOReturnSuccess, kIOReturnNoMemory, kIOReturnError}
(* what the IOService base class may answer to Stop and NewUserClient *)
SuperReturn == {kIOReturnSuccess, kIOReturnError}

(* arguments the host passes to the notification handlers *)
ObjectIDs == {kDeviceObjectID, kOutputStreamObjectID}
ChangeActions == {0, 1}

NULL == 0

(* the value of the ivars pointer before IONewZero and after IOSafeDeleteNULL *)
nullptr == [null |-> TRUE]

Slots == <<"audioDevice", "inputStream", "outputStream", "volumeControl",
           "muteControl", "inputBuffer", "outputBuffer">>

(* IONewZero: every slot null, every scalar zero *)
ZeroIVars ==
  [audioDevice |-> NULL, inputStream |-> NULL, outputStream |-> NULL,
   volumeControl |-> NULL, muteControl |-> NULL,
   inputBuffer |-> NULL, outputBuffer |-> NULL,
   volumeLevel |-> 0, isMuted |-> FALSE, isRunning |-> FALSE]

NoFormat ==
  [mSampleRate |-> 0, mBytesPerPacket |-> 0, mFramesPerPacket |-> 0,
   mBytesPerFrame |-> 0, mChannelsPerFrame |-> 0, mBitsPerChannel |-> 0]

(* the IOUserAudioStreamBasicDescription built in Start *)
format ==
  [mSampleRate |-> kSampleRate, mBytesPerPacket |-> kBytesPerFrame,
   mFramesPerPacket |-> 1, mBytesPerFrame |-> kBytesPerFrame,
   mChannelsPerFrame |-> kNumChannels, mBitsPerChannel |-> kBitsPerChannel]

(* volumeRange = { -96.0, 0.0, ... } in dB *)
volumeRange == [min |-> -96, max |-> 0]

(* a freshly created framework object, holding one reference (OSNoRetain)  *)
NewObject(kind, dir, oid) ==
  [kind |-> kind, dir |-> dir, oid |-> oid, rc |-> 1,
   streams |-> {}, controls |-> {}, buffer |-> NULL, io |-> FALSE,
   name |-> "", sampleRate |-> 0, zeroTimeStampPeriod |-> 0, canBeDefault |-> FALSE,
   format |-> NoFormat, formats |-> <<>>,
   settable |-> FALSE, value |-> 0, min |-> 0, max |-> 0, size |-> 0]

VARIABLES ivars, heap, hostObjects, serviceRegistered, pc, calls, trace,
          nextId, lastNotify, fault

vars == <<ivars, heap, hostObjects, serviceRegistered, pc, calls, trace,
          nextId, lastNotify, fault>>

(* ---- reference counting ---- *)
EmptyHeap == [x \in {} |-> NULL]

Retain(h, id) == [h EXCEPT ![id].rc = @ + 1]

Held(o) == (o.streams \cup o.controls \cup {o.buffer}) \ {NULL}

RECURSIVE Release(_, _)
RECURSIVE ReleaseAll(_, _)
(* drop one reference; the last one frees the object, which drops the      *)
(* references the object itself holds                                      *)
Release(h, id) ==
  IF id = NULL \/ id \notin DOMAIN h THEN h
  ELSE IF h[id].rc > 1 THEN [h EXCEPT ![id].rc = @ - 1]
  ELSE ReleaseAll([x \in DOMAIN h \ {id} |-> h[x]], Held(h[id]))

ReleaseAll(h, S) ==
  IF S = {} THEN h
  ELSE LET x == CHOOSE y \in S : TRUE IN ReleaseAll(Release(h, x), S \ {x})

(* ---- lifecycle bookkeeping ---- *)
Count(op) == Cardinality({i \in DOMAIN calls : calls[i].op = op})
Freed == Count("free") > 0
Alive == calls # <<>> /\ calls[1].ret = "true" /\ ~Freed /\ ivars # nullptr
(* the host starts a service that is neither started nor stopped yet, and  *)
(* may start it again after a failed Start                                 *)
Startable ==
  /\ Count("Stop") = 0
  /\ \A i \in DOMAIN calls : calls[i].op = "Start" => calls[i].ret # kIOReturnSuccess

Entry(c, op, obj, ret) == [call |-> c, op |-> op, obj |-> obj, ret |-> ret]
Log(op, obj, ret) == trace' = Append(trace, Entry(Len(calls), op, obj, ret))
Return(ret) == /\ calls' = [calls EXCEPT ![Len(calls)].ret = ret]
               /\ pc' = "idle"
Goto(next) == pc' = next /\ UNCHANGED calls

(* lastNotify: the handler the host called last since the latest lifecycle  *)
(* call, and what it returned                                              *)
NoNotify == [op |-> "none", ret |-> "none"]

Init ==
  /\ ivars = nullptr
  /\ heap = EmptyHeap
  /\ hostObjects = {}
  /\ serviceRegistered = FALSE
  /\ pc = "idle"
  /\ calls = <<>>
  /\ trace = <<>>
  /\ nextId = 1
  /\ lastNotify = NoNotify
  /\ fault = FALSE

(* init without the assignment of volumeLevel *)
Mut_init ==
  /\ calls = <<>>
  /\ \E superOk \in BOOLEAN, allocOk \in BOOLEAN :
       IF ~superOk THEN
         /\ calls' = <<[op |-> "init", ret |-> "false"]>>
         /\ trace' = Append(trace, Entry(1, "super::init", NULL, "false"))
         /\ UNCHANGED ivars
       ELSE IF ~allocOk THEN
         /\ calls' = <<[op |-> "init", ret |-> "false"]>>
         /\ trace' = trace \o <<Entry(1, "super::init", NULL, "true"),
                                Entry(1, "IONewZero", NULL, "nullptr")>>
         /\ UNCHANGED ivars
       ELSE
         /\ calls' = <<[op |-> "init", ret |-> "true"]>>
         /\ trace' = trace \o <<Entry(1, "super::init", NULL, "true"),
                                Entry(1, "IONewZero", NULL, "ok")>>
         /\ ivars' = [ZeroIVars EXCEPT !.isMuted = FALSE, !.isRunning = FALSE]
  /\ UNCHANGED <<heap, hostObjects, serviceRegistered, pc, nextId, lastNotify, fault>>

(* ---- bool MacaroniAudioDriver::init() ---- *)
init ==
  /\ calls = <<>>
  /\ \E superOk \in BOOLEAN, allocOk \in BOOLEAN :
       IF ~superOk THEN
         /\ calls' = <<[op |-> "init", ret |-> "false"]>>
         /\ trace' = Append(trace, Entry(1, "super::init", NULL, "false"))
         /\ UNCHANGED ivars
       ELSE IF ~allocOk THEN
         /\ calls' = <<[op |-> "init", ret |-> "false"]>>
         /\ trace' = trace \o <<Entry(1, "super::init", NULL, "true"),
                                Entry(1, "IONewZero", NULL, "nullptr")>>
         /\ UNCHANGED ivars
       ELSE
         /\ calls' = <<[op |-> "init", ret |-> "true"]>>
         /\ trace' = trace \o <<Entry(1, "super::init", NULL, "true"),
                                Entry(1, "IONewZero", NULL, "ok")>>
         /\ ivars' = [ZeroIVars EXCEPT !.volumeLevel = 1, !.isMuted = FALSE,
                                       !.isRunning = FALSE]
  /\ UNCHANGED <<heap, hostObjects, serviceRegistered, pc, nextId, lastNotify, fault>>

(* ---- kern_return_t MacaroniAudioDriver::Start(IOService* provider) ---- *)
(* One action per fallible step; pc is the position inside the call.       *)

(* ivars->slot = OSSharedPtr(T::Create(...), OSNoRetain); null => NoMemory *)
CreateStep(slot, obj, op, next) ==
  \E ok \in BOOLEAN :
    LET h1 == Release(heap, ivars[slot]) IN
    IF ok THEN
      /\ heap' = (nextId :> obj) @@ h1
      /\ ivars' = [ivars EXCEPT ![slot] = nextId]
      /\ nextId' = nextId + 1
      /\ Log(op, nextId, "ok")
      /\ Goto(next)
    ELSE
      /\ heap' = h1
      /\ ivars' = [ivars EXCEPT ![slot] = NULL]
      /\ UNCHANGED nextId
      /\ Log(op, NULL, "nullptr")
      /\ Return(kIOReturnNoMemory)

(* StatusStep with "return kIOReturnNoMemory" in place of "return ret" *)
Mut_StatusStep(op, obj, next, hOk, hostOk) ==
  \E ret \in KernReturn :
    /\ Log(op, obj, ret)
    /\ IF ret = kIOReturnSuccess
         THEN heap' = hOk /\ hostObjects' = hostOk /\ Goto(next)
         ELSE UNCHANGED <<heap, hostObjects>> /\ Return(kIOReturnNoMemory)

(* ret = callee(...); if (ret != kIOReturnSuccess) return ret;             *)
StatusStep(op, obj, next, hOk, hostOk) ==
  \E ret \in KernReturn :
    /\ Log(op, obj, ret)
    /\ IF ret = kIOReturnSuccess
         THEN heap' = hOk /\ hostObjects' = hostOk /\ Goto(next)
         ELSE UNCHANGED <<heap, hostObjects>> /\ Return(ret)

(* IOBufferMemoryDescriptor::Create(dir, bufferSize, 0, slot.attach())     *)
BufferStep(slot, op, next) ==
  \E ret \in KernReturn :
    LET h1 == Release(heap, ivars[slot])
        bufferSize == kBufferFrames * kBytesPerFrame IN
    IF ret = kIOReturnSuccess THEN
      /\ heap' = (nextId :> [NewObject("buffer", "inout", NULL) EXCEPT !.size = bufferSize]) @@ h1
      /\ ivars' = [ivars EXCEPT ![slot] = nextId]
      /\ nextId' = nextId + 1
      /\ Log(op, nextId, ret)
      /\ Goto(next)
    ELSE
      /\ heap' = h1
      /\ ivars' = [ivars EXCEPT ![slot] = NULL]
      /\ UNCHANGED nextId
      /\ Log(op, NULL, ret)
      /\ Return(ret)

(* entry of Start, for a host that starts the service at most limit times *)
StartEntry(limit) ==
  /\ Alive /\ pc = "idle" /\ Startable /\ Count("Start") < limit
  /\ \E ret \in KernReturn :
       /\ calls' = Append(calls, [op |-> "Start",
                                  ret |-> IF ret = kIOReturnSuccess THEN "pending" ELSE ret])
       /\ trace' = Append(trace, Entry(Len(calls) + 1, "super::Start", NULL, ret))
       /\ pc' = IF ret = kIOReturnSuccess THEN "CreateDevice" ELSE "idle"
  /\ lastNotify' = NoNotify
  /\ UNCHANGED <<ivars, heap, hostObjects, serviceRegistered, nextId, fault>>

Start_super == StartEntry(MaxStarts)

(* the same entry for a host that retries a failed Start once more *)
Start_retry == StartEntry(MaxStarts + 1)

Start_CreateDevice ==
  /\ pc = "CreateDevice"
  /\ CreateStep("audioDevice",
                [NewObject("device", "none", NULL) EXCEPT
                   !.name = "Macaroni Audio", !.canBeDefault = TRUE,
                   !.sampleRate = kSampleRate, !.zeroTimeStampPeriod = kBufferFrames],
                "IOUserAudioDevice::Create", "CreateOutputStream")
  /\ UNCHANGED <<hostObjects, serviceRegistered, lastNotify, fault>>

Start_CreateOutputStream ==
  /\ pc = "CreateOutputStream"
  /\ CreateStep("outputStream",
                [NewObject("stream", "Output", kOutputStreamObjectID) EXCEPT
                   !.name = "Macaroni Output", !.formats = <<format>>, !.format = format],
                "IOUserAudioStream::Create(Output)", "CreateInputStream")
  /\ UNCHANGED <<hostObjects, serviceRegistered, lastNotify, fault>>

Start_CreateInputStream ==
  /\ pc = "CreateInputStream"
  /\ CreateStep("inputStream",
                [NewObject("stream", "Input", kInputStreamObjectID) EXCEPT
                   !.name = "Macaroni Input", !.formats = <<format>>, !.format = format],
                "IOUserAudioStream::Create(Input)", "CreateVolumeControl")
  /\ UNCHANGED <<hostObjects, serviceRegistered, lastNotify, fault>>

Start_CreateVolumeControl ==
  /\ pc = "CreateVolumeControl"
  /\ CreateStep("volumeControl",
                [NewObject("level", "none", kVolumeControlObjectID) EXCEPT
                   !.settable = TRUE, !.value = 0,
                   !.min = volumeRange.min, !.max = volumeRange.max],
                "IOUserAudioLevelControl::Create", "CreateMuteControl")
  /\ UNCHANGED <<hostObjects, serviceRegistered, lastNotify, fault>>

Start_CreateMuteControl ==
  /\ pc = "CreateMuteControl"
  /\ CreateStep("muteControl",
                [NewObject("boolean", "none", kMuteControlObjectID) EXCEPT
                   !.settable = TRUE, !.value = 0, !.min = 0, !.max = 1],
                "IOUserAudioBooleanControl::Create", "AddOutputStream")
  /\ UNCHANGED <<hostObjects, serviceRegistered, lastNotify, fault>>

Start_AddOutputStream ==
  /\ pc = "AddOutputStream"
  /\ StatusStep("AddStream(outputStream)", ivars.outputStream, "AddInputStream",
                Retain([heap EXCEPT ![ivars.audioDevice].streams = @ \cup {ivars.outputStream}],
                       ivars.outputStream),
                hostObjects)
  /\ UNCHANGED <<ivars, serviceRegistered, nextId, lastNotify, fault>>

Start_AddInputStream ==
  /\ pc = "AddInputStream"
  /\ StatusStep("AddStream(inputStream)", ivars.inputStream, "AddVolumeControl",
                Retain([heap EXCEPT ![ivars.audioDevice].streams = @ \cup {ivars.inputStream}],
                       ivars.inputStream),
                hostObjects)
  /\ UNCHANGED <<ivars, serviceRegistered, nextId, lastNotify, fault>>

(* AddControl(volumeControl) without the check of ret *)
Mut_Start_AddVolumeControl ==
  /\ pc = "AddVolumeControl"
  /\ \E ret \in KernReturn :
       /\ Log("AddControl(volumeControl)", ivars.volumeControl, ret)
       /\ heap' = IF ret = kIOReturnSuccess
                    THEN Retain([heap EXCEPT ![ivars.audioDevice].controls =
                                               @ \cup {ivars.volumeControl}],
                                ivars.volumeControl)
                    ELSE heap
       /\ Goto("AddMuteControl")
  /\ UNCHANGED <<ivars, hostObjects, serviceRegistered, nextId, lastNotify, fault>>

Start_AddVolumeControl ==
  /\ pc = "AddVolumeControl"
  /\ StatusStep("AddControl(volumeControl)", ivars.volumeControl, "AddMuteControl",
                Retain([heap EXCEPT ![ivars.audioDevice].controls = @ \cup {ivars.volumeControl}],
                       ivars.volumeControl),
                hostObjects)
  /\ UNCHANGED <<ivars, serviceRegistered, nextId, lastNotify, fault>>

(* AddControl(muteControl) without the check of ret *)
Mut_Start_AddMuteControl ==
  /\ pc = "AddMuteControl"
  /\ \E ret \in KernReturn :
       /\ Log("AddControl(muteControl)", ivars.muteControl, ret)
       /\ heap' = IF ret = kIOReturnSuccess
                    THEN Retain([heap EXCEPT ![ivars.audioDevice].controls =
                                               @ \cup {ivars.muteControl}],
                                ivars.muteControl)
                    ELSE heap
       /\ Goto("AddObject")
  /\ UNCHANGED <<ivars, hostObjects, serviceRegistered, nextId, lastNotify, fault>>

Start_AddMuteControl ==
  /\ pc = "AddMuteControl"
  /\ StatusStep("AddControl(muteControl)", ivars.muteControl, "AddObject",
                Retain([heap EXCEPT ![ivars.audioDevice].controls = @ \cup {ivars.muteControl}],
                       ivars.muteControl),
                hostObjects)
  /\ UNCHANGED <<ivars, serviceRegistered, nextId, lastNotify, fault>>

(* AddObject(ivars->audioDevice.get()): the host keeps a reference *)
Start_AddObject ==
  /\ pc = "AddObject"
  /\ StatusStep("AddObject", ivars.audioDevice, "CreateOutputBuffer",
                Retain(heap, ivars.audioDevice),
                hostObjects \cup {ivars.audioDevice})
  /\ UNCHANGED <<ivars, serviceRegistered, nextId, lastNotify, fault>>

(* the output buffer allocation without the check of ret *)
Mut_Start_CreateOutputBuffer ==
  /\ pc = "CreateOutputBuffer"
  /\ \E ret \in KernReturn :
       LET h1 == Release(heap, ivars.outputBuffer) IN
       /\ Log("IOBufferMemoryDescriptor::Create(outputBuffer)",
              IF ret = kIOReturnSuccess THEN nextId ELSE NULL, ret)
       /\ IF ret = kIOReturnSuccess THEN
            /\ heap' = (nextId :> [NewObject("buffer", "inout", NULL) EXCEPT
                                     !.size = kBufferFrames * kBytesPerFrame]) @@ h1
            /\ ivars' = [ivars EXCEPT !.outputBuffer = nextId]
            /\ nextId' = nextId + 1
          ELSE
            /\ heap' = h1
            /\ ivars' = [ivars EXCEPT !.outputBuffer = NULL]
            /\ UNCHANGED nextId
       /\ Goto("CreateInputBuffer")
  /\ UNCHANGED <<hostObjects, serviceRegistered, lastNotify, fault>>

Start_CreateOutputBuffer ==
  /\ pc = "CreateOutputBuffer"
  /\ BufferStep("outputBuffer", "IOBufferMemoryDescriptor::Create(outputBuffer)",
                "CreateInputBuffer")
  /\ UNCHANGED <<hostObjects, serviceRegistered, lastNotify, fault>>

(* StartIO moved ahead of the two SetIOMemoryDescriptor calls *)
Mut_Start_CreateInputBuffer ==
  /\ pc = "CreateInputBuffer"
  /\ BufferStep("inputBuffer", "IOBufferMemoryDescriptor::Create(inputBuffer)",
                "StartIO")
  /\ UNCHANGED <<hostObjects, serviceRegistered, lastNotify, fault>>

Start_CreateInputBuffer ==
  /\ pc = "CreateInputBuffer"
  /\ BufferStep("inputBuffer", "IOBufferMemoryDescriptor::Create(inputBuffer)",
                "BindOutputBuffer")
  /\ UNCHANGED <<hostObjects, serviceRegistered, lastNotify, fault>>

(* stream->SetIOMemoryDescriptor(buffer): the stream keeps a reference *)
Start_BindOutputBuffer ==
  /\ pc = "BindOutputBuffer"
  /\ StatusStep("SetIOMemoryDescriptor(outputStream)", ivars.outputBuffer, "BindInputBuffer",
                Retain([heap EXCEPT ![ivars.outputStream].buffer = ivars.outputBuffer],
                       ivars.outputBuffer),
                hostObjects)
  /\ UNCHANGED <<ivars, serviceRegistered, nextId, lastNotify, fault>>

(* the input stream bound to the output buffer *)
Mut_Start_BindInputBuffer ==
  /\ pc = "BindInputBuffer"
  /\ StatusStep("SetIOMemoryDescriptor(inputStream)", ivars.outputBuffer, "StartIO",
                Retain([heap EXCEPT ![ivars.inputStream].buffer = ivars.outputBuffer],
                       ivars.outputBuffer),
                hostObjects)
  /\ UNCHANGED <<ivars, serviceRegistered, nextId, lastNotify, fault>>

Start_BindInputBuffer ==
  /\ pc = "BindInputBuffer"
  /\ StatusStep("SetIOMemoryDescriptor(inputStream)", ivars.inputBuffer, "StartIO",
                Retain([heap EXCEPT ![ivars.inputStream].buffer = ivars.inputBuffer],
                       ivars.inputBuffer),
                hostObjects)
  /\ UNCHANGED <<ivars, serviceRegistered, nextId, lastNotify, fault>>

Start_StartIO ==
  /\ pc = "StartIO"
  /\ StatusStep("StartIO", ivars.audioDevice, "RegisterService",
                [heap EXCEPT ![ivars.audioDevice].io = TRUE],
                hostObjects)
  /\ UNCHANGED <<ivars, serviceRegistered, nextId, lastNotify, fault>>

Start_RegisterService ==
  /\ pc = "RegisterService"
  /\ serviceRegistered' = TRUE
  /\ Log("RegisterService", NULL, "void")
  /\ Return(kIOReturnSuccess)
  /\ UNCHANGED <<ivars, heap, hostObjects, nextId, lastNotify, fault>>

StartSteps ==
  \/ Start_CreateDevice
  \/ Start_CreateOutputStream
  \/ Start_CreateInputStream
  \/ Start_CreateVolumeControl
  \/ Start_CreateMuteControl
  \/ Start_AddOutputStream
  \/ Start_AddInputStream
  \/ Start_AddVolumeControl
  \/ Start_AddMuteControl
  \/ Start_AddObject
  \/ Start_CreateOutputBuffer
  \/ Start_CreateInputBuffer
  \/ Start_BindOutputBuffer
  \/ Start_BindInputBuffer
  \/ Start_StartIO
  \/ Start_RegisterService

Start == Start_super \/ StartSteps

(* ---- kern_return_t MacaroniAudioDriver::Stop(IOService* provider) ---- *)
(* RemoveObject: the host drops the device if it holds it *)
RemoveObject(h, d) == IF d \in hostObjects THEN Release(h, d) ELSE h

(* Stop without the RemoveObject call *)
Mut_Stop ==
  /\ Alive /\ pc = "idle" /\ Count("Stop") < MaxStops
  /\ \E ret \in SuperReturn :
       LET c == Len(calls) + 1
           d == ivars.audioDevice IN
       /\ IF d # NULL THEN
            /\ heap' = [heap EXCEPT ![d].io = FALSE]
            /\ trace' = trace \o <<Entry(c, "StopIO", d, "unchecked"),
                                   Entry(c, "super::Stop", NULL, ret)>>
          ELSE
            /\ UNCHANGED heap
            /\ trace' = Append(trace, Entry(c, "super::Stop", NULL, ret))
       /\ calls' = Append(calls, [op |-> "Stop", ret |-> ret])
  /\ lastNotify' = NoNotify
  /\ UNCHANGED <<ivars, hostObjects, serviceRegistered, pc, nextId, fault>>

(* Stop that clears isRunning *)
Mut_Stop_ClearsRunning ==
  /\ Alive /\ pc = "idle" /\ Count("Stop") < MaxStops
  /\ \E ret \in SuperReturn :
       LET c == Len(calls) + 1
           d == ivars.audioDevice IN
       /\ IF d # NULL THEN
            /\ heap' = RemoveObject([heap EXCEPT ![d].io = FALSE], d)
            /\ hostObjects' = hostObjects \ {d}
            /\ trace' = trace \o <<Entry(c, "StopIO", d, "unchecked"),
                                   Entry(c, "RemoveObject", d, "unchecked"),
                                   Entry(c, "super::Stop", NULL, ret)>>
          ELSE
            /\ UNCHANGED <<heap, hostObjects>>
            /\ trace' = Append(trace, Entry(c, "super::Stop", NULL, ret))
       /\ calls' = Append(calls, [op |-> "Stop", ret |-> ret])
  /\ ivars' = [ivars EXCEPT !.isRunning = FALSE]
  /\ lastNotify' = NoNotify
  /\ UNCHANGED <<serviceRegistered, pc, nextId, fault>>

(* Stop that also resets ivars->audioDevice *)
Mut_Stop_Reset ==
  /\ Alive /\ pc = "idle" /\ Count("Stop") < MaxStops
  /\ \E ret \in SuperReturn :
       LET c == Len(calls) + 1
           d == ivars.audioDevice IN
       /\ IF d # NULL THEN
            /\ heap' = Release(RemoveObject([heap EXCEPT ![d].io = FALSE], d), d)
            /\ hostObjects' = hostObjects \ {d}
            /\ trace' = trace \o <<Entry(c, "StopIO", d, "unchecked"),
                                   Entry(c, "RemoveObject", d, "unchecked"),
                                   Entry(c, "super::Stop", NULL, ret)>>
          ELSE
            /\ UNCHANGED <<heap, hostObjects>>
            /\ trace' = Append(trace, Entry(c, "super::Stop", NULL, ret))
       /\ calls' = Append(calls, [op |-> "Stop", ret |-> ret])
  /\ ivars' = [ivars EXCEPT !.audioDevice = NULL]
  /\ lastNotify' = NoNotify
  /\ UNCHANGED <<serviceRegistered, pc, nextId, fault>>

Stop ==
  /\ Alive /\ pc = "idle" /\ Count("Stop") < MaxStops
  /\ \E ret \in SuperReturn :
       LET c == Len(calls) + 1
           d == ivars.audioDevice IN
       /\ IF d # NULL THEN
            /\ heap' = RemoveObject([heap EXCEPT ![d].io = FALSE], d)
            /\ hostObjects' = hostObjects \ {d}
            /\ trace' = trace \o <<Entry(c, "StopIO", d, "unchecked"),
                                   Entry(c, "RemoveObject", d, "unchecked"),
                                   Entry(c, "super::Stop", NULL, ret)>>
          ELSE
            /\ UNCHANGED <<heap, hostObjects>>
            /\ trace' = Append(trace, Entry(c, "super::Stop", NULL, ret))
       /\ calls' = Append(calls, [op |-> "Stop", ret |-> ret])
  /\ lastNotify' = NoNotify
  /\ UNCHANGED <<ivars, serviceRegistered, pc, nextId, fault>>

(* ---- void MacaroniAudioDriver::free() ---- *)
(* the reset() calls in reverse order *)
Mut_freeOrder == <<"outputBuffer", "inputBuffer", "muteControl", "volumeControl",
                   "outputStream", "inputStream", "audioDevice">>

(* the order of the reset() calls *)
freeOrder == <<"audioDevice", "inputStream", "outputStream", "volumeControl",
               "muteControl", "inputBuffer", "outputBuffer">>

RECURSIVE ResetAll(_, _, _)
(* heap after resetting the slots order[k..] of ivars *)
ResetAll(h, order, k) ==
  IF k > Len(order) THEN h
  ELSE ResetAll(Release(h, ivars[order[k]]), order, k + 1)

ResetLog(c, order) ==
  [k \in 1..Len(order) |-> Entry(c, order[k], ivars[order[k]], "reset")]

(* free without the "ivars != nullptr" test: a null ivars is dereferenced *)
Mut_free ==
  /\ calls # <<>> /\ ~Freed /\ pc = "idle"
  /\ LET c == Len(calls) + 1 IN
       /\ IF ivars # nullptr THEN
            /\ heap' = ResetAll(heap, freeOrder, 1)
            /\ trace' = trace \o ResetLog(c, freeOrder)
                              \o <<Entry(c, "IOSafeDeleteNULL", NULL, "void"),
                                   Entry(c, "super::free", NULL, "void")>>
            /\ ivars' = nullptr
            /\ UNCHANGED fault
          ELSE
            /\ UNCHANGED <<heap, ivars, trace>>
            /\ fault' = TRUE
       /\ calls' = Append(calls, [op |-> "free", ret |-> "void"])
  /\ lastNotify' = NoNotify
  /\ UNCHANGED <<hostObjects, serviceRegistered, pc, nextId>>

free ==
  /\ calls # <<>> /\ ~Freed /\ pc = "idle"
  /\ LET c == Len(calls) + 1 IN
       /\ IF ivars # nullptr THEN
            /\ heap' = ResetAll(heap, freeOrder, 1)
            /\ trace' = trace \o ResetLog(c, freeOrder)
                              \o <<Entry(c, "IOSafeDeleteNULL", NULL, "void"),
                                   Entry(c, "super::free", NULL, "void")>>
            /\ ivars' = nullptr
          ELSE
            /\ UNCHANGED <<heap, ivars>>
            /\ trace' = Append(trace, Entry(c, "super::free", NULL, "void"))
       /\ calls' = Append(calls, [op |-> "free", ret |-> "void"])
  /\ lastNotify' = NoNotify
  /\ UNCHANGED <<hostObjects, serviceRegistered, pc, nextId, fault>>

(* ---- host notification handlers ---- *)
NewUserClient ==
  /\ Alive /\ pc = "idle"
  /\ \E type \in {0}, ret \in SuperReturn :
       lastNotify' = [op |-> "NewUserClient", ret |-> ret]
  /\ UNCHANGED <<ivars, heap, hostObjects, serviceRegistered, pc, calls, trace, nextId, fault>>

(* StartDevice that also zeroes the volume and mutes *)
Mut_StartDevice ==
  /\ Alive /\ pc = "idle"
  /\ \E in_object_id \in ObjectIDs, in_flags \in {0} :
       /\ ivars' = [ivars EXCEPT !.isRunning = TRUE, !.volumeLevel = 0, !.isMuted = TRUE]
       /\ lastNotify' = [op |-> "StartDevice", ret |-> kIOReturnSuccess]
  /\ UNCHANGED <<heap, hostObjects, serviceRegistered, pc, calls, trace, nextId, fault>>

StartDevice ==
  /\ Alive /\ pc = "idle"
  /\ \E in_object_id \in ObjectIDs, in_flags \in {0} :
       /\ ivars' = [ivars EXCEPT !.isRunning = TRUE]
       /\ lastNotify' = [op |-> "StartDevice", ret |-> kIOReturnSuccess]
  /\ UNCHANGED <<heap, hostObjects, serviceRegistered, pc, calls, trace, nextId, fault>>

(* StopDevice with the assignment of StartDevice *)
Mut_StopDevice ==
  /\ Alive /\ pc = "idle"
  /\ \E in_object_id \in ObjectIDs, in_flags \in {0} :
       /\ ivars' = [ivars EXCEPT !.isRunning = TRUE]
       /\ lastNotify' = [op |-> "StopDevice", ret |-> kIOReturnSuccess]
  /\ UNCHANGED <<heap, hostObjects, serviceRegistered, pc, calls, trace, nextId, fault>>

StopDevice ==
  /\ Alive /\ pc = "idle"
  /\ \E in_object_id \in ObjectIDs, in_flags \in {0} :
       /\ ivars' = [ivars EXCEPT !.isRunning = FALSE]
       /\ lastNotify' = [op |-> "StopDevice", ret |-> kIOReturnSuccess]
  /\ UNCHANGED <<heap, hostObjects, serviceRegistered, pc, calls, trace, nextId, fault>>

(* PerformDeviceConfigurationChange that restarts the device's I/O flag *)
Mut_PerformDeviceConfigurationChange ==
  /\ Alive /\ pc = "idle"
  /\ \E in_object_id \in ObjectIDs, in_change_action \in ChangeActions :
       /\ lastNotify' = [op |-> "PerformDeviceConfigurationChange", ret |-> kIOReturnSuccess]
       /\ ivars' = [ivars EXCEPT !.isRunning = (in_change_action = 1)]
  /\ UNCHANGED <<heap, hostObjects, serviceRegistered, pc, calls, trace, nextId, fault>>

PerformDeviceConfigurationChange ==
  /\ Alive /\ pc = "idle"
  /\ \E in_object_id \in ObjectIDs, in_change_action \in ChangeActions :
       lastNotify' = [op |-> "PerformDeviceConfigurationChange", ret |-> kIOReturnSuccess]
  /\ UNCHANGED <<ivars, heap, hostObjects, serviceRegistered, pc, calls, trace, nextId, fault>>

AbortDeviceConfigurationChange ==
  /\ Alive /\ pc = "idle"
  /\ \E in_object_id \in ObjectIDs, in_change_action \in ChangeActions :
       lastNotify' = [op |-> "AbortDeviceConfigurationChange", ret |-> kIOReturnSuccess]
  /\ UNCHANGED <<ivars, heap, hostObjects, serviceRegistered, pc, calls, trace, nextId, fault>>

(* candidate formats the host may announce *)
Formats == {format, [format EXCEPT !.mBytesPerFrame = 4]}

(* HandleChangedStreamFormat that installs in_new_format on the streams *)
Mut_HandleChangedStreamFormat ==
  /\ Alive /\ pc = "idle"
  /\ \E in_object_id \in ObjectIDs, in_old_format \in Formats, in_new_format \in Formats :
       /\ lastNotify' = [op |-> "HandleChangedStreamFormat", ret |-> kIOReturnSuccess]
       /\ heap' = [id \in DOMAIN heap |->
                     IF heap[id].kind = "stream" /\ heap[id].oid = in_object_id
                       THEN [heap[id] EXCEPT !.format = in_new_format]
                       ELSE heap[id]]
  /\ UNCHANGED <<ivars, hostObjects, serviceRegistered, pc, calls, trace, nextId, fault>>

HandleChangedStreamFormat ==
  /\ Alive /\ pc = "idle"
  /\ \E in_object_id \in ObjectIDs, in_old_format \in Formats, in_new_format \in Formats :
       lastNotify' = [op |-> "HandleChangedStreamFormat", ret |-> kIOReturnSuccess]
  /\ UNCHANGED <<ivars, heap, hostObjects, serviceRegistered, pc, calls, trace, nextId, fault>>

Next ==
  \/ init
  \/ Start
  \/ Stop
  \/ free
  \/ NewUserClient
  \/ StartDevice
  \/ StopDevice
  \/ PerformDeviceConfigurationChange
  \/ AbortDeviceConfigurationChange
  \/ HandleChangedStreamFormat

Spec == Init /\ [][Next]_vars

(* init, repeated attempts of Start, free: the service is started again    *)
(* after a failed Start                                                    *)
NextRetry ==
  \/ init
  \/ Start_retry
  \/ StartSteps
  \/ free

SpecRetry == Init /\ [][NextRetry]_vars

TypeOK ==
  /\ pc \in {"idle", "CreateDevice", "CreateOutputStream", "CreateInputStream",
             "CreateVolumeControl", "CreateMuteControl", "AddOutputStream",
             "AddInputStream", "AddVolumeControl", "AddMuteControl", "AddObject",
             "CreateOutputBuffer", "CreateInputBuffer", "BindOutputBuffer",
             "BindInputBuffer", "StartIO", "RegisterService"}
  /\ hostObjects \subseteq DOMAIN heap
  /\ \A id \in DOMAIN heap : heap[id].rc >= 1 /\ Held(heap[id]) \subseteq DOMAIN heap
  /\ ivars # nullptr => \A k \in 1..Len(Slots) : ivars[Slots[k]] \in DOMAIN heap \cup {NULL}

(* number of references to id held by the host, by other objects and by    *)
(* the slots of ivars                                                      *)
Holders(id) ==
  (IF id \in hostObjects THEN 1 ELSE 0)
  + Cardinality({o \in DOMAIN heap : id \in Held(heap[o])})
  + (IF ivars = nullptr THEN 0
     ELSE Cardinality({k \in 1..Len(Slots) : ivars[Slots[k]] = id}))

RefCountsExact == ivars # nullptr => \A id \in DOMAIN heap : heap[id].rc = Holders(id)

(* ======================= properties ======================= *)

(* the external calls of Start, in program order *)
StartOps ==
  <<"super::Start", "IOUserAudioDevice::Create",
    "IOUserAudioStream::Create(Output)", "IOUserAudioStream::Create(Input)",
    "IOUserAudioLevelControl::Create", "IOUserAudioBooleanControl::Create",
    "AddStream(outputStream)", "AddStream(inputStream)",
    "AddControl(volumeControl)", "AddControl(muteControl)", "AddObject",
    "IOBufferMemoryDescriptor::Create(outputBuffer)",
    "IOBufferMemoryDescriptor::Create(inputBuffer)",
    "SetIOMemoryDescriptor(outputStream)", "SetIOMemoryDescriptor(inputStream)",
    "StartIO", "RegisterService">>

(* the entries call number c added to the trace *)
CallTrace(c) == LET OfCall(e) == e.call = c IN SelectSeq(trace, OfCall)

StepFailed(e) == e.ret \in {"nullptr", "false", kIOReturnNoMemory, kIOReturnError}
StepSucceeded(e) == e.ret \in {"ok", kIOReturnSuccess}
FailureStatus == {kIOReturnNoMemory, kIOReturnError}
StartCalls == {c \in DOMAIN calls : calls[c].op = "Start"}
Returned(c) == c < Len(calls) \/ pc = "idle"
Has(t, op) == \E k \in DOMAIN t : t[k].op = op /\ StepSucceeded(t[k])
Before(t, k, op) == \E j \in 1..(k - 1) : t[j].op = op /\ StepSucceeded(t[j])

(* C1: in every call of Start the external calls run in program order, and *)
(* when one of them fails it is the last one of that call: Start has       *)
(* returned, with a status that is not success.                            *)
C1_FailureShortCircuits ==
  \A c \in StartCalls :
    LET t == CallTrace(c) IN
    \A k \in DOMAIN t :
      /\ t[k].op = StartOps[k]
      /\ StepFailed(t[k]) =>
           /\ k = Len(t)
           /\ Returned(c)
           /\ calls[c].ret \in FailureStatus

C1_Witness ==
  /\ pc = "idle"
  /\ \E i \in DOMAIN trace :
       trace[i].op = "AddControl(volumeControl)" /\ StepFailed(trace[i])

(* C2: when Start has returned a failure status, the device of the driver  *)
(* is not registered with the host (no AddObject is in effect).            *)
C2_FailedStartNotRegistered ==
  (/\ pc = "idle"
   /\ calls # <<>>
   /\ calls[Len(calls)].op = "Start"
   /\ calls[Len(calls)].ret \in FailureStatus)
  => hostObjects = {}

(* the four children of device d: one output and one input stream, the     *)
(* level control and the boolean control                                   *)
FourChildren(d) ==
  /\ Cardinality(heap[d].streams) = 2
  /\ \E o \in heap[d].streams : heap[o].dir = "Output"
  /\ \E i \in heap[d].streams : heap[i].dir = "Input"
  /\ Cardinality(heap[d].controls) = 2
  /\ \E v \in heap[d].controls : heap[v].kind = "level"
  /\ \E m \in heap[d].controls : heap[m].kind = "boolean"

(* C3: a device registered with the host has its four children attached,   *)
(* and an AddObject call is preceded, in the same call of Start, by the     *)
(* four creations and the four attachments, all successful.                *)
C3_RegisteredOnlyWhenComplete ==
  /\ \A d \in hostObjects : FourChildren(d)
  /\ \A c \in StartCalls :
       LET t == CallTrace(c) IN
       \A k \in DOMAIN t :
         t[k].op = "AddObject" =>
           \A j \in 3..10 : Before(t, k, StartOps[j])

C3_Witness == \E d \in hostObjects : heap[d].kind = "device" /\ FourChildren(d)

(* C4: StartIO is called only after both buffers were allocated and bound  *)
(* to their streams; RegisterService is called, and Start returns success, *)
(* only after StartIO succeeded; a device doing I/O has a buffer on each   *)
(* of its streams.                                                         *)
C4_IOStartsLast ==
  /\ \A c \in StartCalls :
       LET t == CallTrace(c) IN
       /\ \A k \in DOMAIN t :
            /\ t[k].op = "StartIO" => \A j \in 12..15 : Before(t, k, StartOps[j])
            /\ t[k].op = "RegisterService" => Before(t, k, "StartIO")
       /\ calls[c].ret = kIOReturnSuccess =>
            /\ Has(t, "StartIO")
            /\ t[Len(t)].op = "RegisterService"
  /\ serviceRegistered => \E i \in DOMAIN trace :
                             trace[i].op = "StartIO" /\ StepSucceeded(trace[i])
  /\ \A d \in DOMAIN heap :
       heap[d].io => \A st \in heap[d].streams : heap[st].buffer \in DOMAIN heap

C4_Witness ==
  /\ serviceRegistered
  /\ calls[Len(calls)].op = "Start"
  /\ calls[Len(calls)].ret = kIOReturnSuccess
  /\ heap[ivars.audioDevice].io

Started == \E c \in StartCalls : calls[c].ret = kIOReturnSuccess
Ops == [i \in DOMAIN calls |-> calls[i].op]
OpsOf(t) == [k \in DOMAIN t |-> t[k].op]

(* C5: of two calls of Stop in a row on a started driver, both return      *)
(* success, and the second one does not repeat StopIO or RemoveObject on   *)
(* the device the first one stopped and withdrew.                          *)
C5_StopTwiceIdempotent ==
  \A c \in DOMAIN calls :
    (Started /\ c > 1 /\ calls[c].op = "Stop" /\ calls[c - 1].op = "Stop") =>
      /\ calls[c - 1].ret = kIOReturnSuccess
      /\ calls[c].ret = kIOReturnSuccess
      /\ LET first == CallTrace(c - 1)
             second == CallTrace(c) IN
         \A i \in DOMAIN first, j \in DOMAIN second :
           ~ (/\ first[i].op \in {"StopIO", "RemoveObject"}
              /\ second[j].op = first[i].op
              /\ second[j].obj = first[i].obj)

(* C6: after init, Start, Stop, free, in this order and with any handlers  *)
(* in between, ivars is deleted, no object is left on the heap and none is *)
(* registered with the host.                                               *)
C6_StartStopFreeLeavesNothing ==
  Ops = <<"init", "Start", "Stop", "free">> =>
    /\ ivars = nullptr
    /\ DOMAIN heap = {}
    /\ hostObjects = {}

C6_Witness ==
  /\ Ops = <<"init", "Start", "Stop", "free">>
  /\ calls[2].ret = kIOReturnSuccess
  /\ \E i \in DOMAIN trace : trace[i].op = "outputBuffer" /\ trace[i].obj # NULL
  /\ DOMAIN heap = {}

(* C7: free runs from every state without a null dereference; afterwards   *)
(* ivars is deleted and the driver holds no reference any more (what is    *)
(* left of an object's count is held by the host or by another object);    *)
(* a Start that fails at the allocation of the output buffer returns the   *)
(* status of that allocation.                                              *)
C7_FreeSafeFromAnyState ==
  /\ ~ fault
  /\ Freed =>
       /\ ivars = nullptr
       /\ \A id \in DOMAIN heap : heap[id].rc = Holders(id)
  /\ \A c \in StartCalls :
       LET t == CallTrace(c)
           e == t[Len(t)] IN
       (e.op = "IOBufferMemoryDescriptor::Create(outputBuffer)" /\ StepFailed(e)) =>
         (Returned(c) /\ calls[c].ret = e.ret)

C7_Witness ==
  /\ Freed
  /\ ivars = nullptr
  /\ \E i \in DOMAIN trace :
       /\ trace[i].op = "IOBufferMemoryDescriptor::Create(outputBuffer)"
       /\ StepFailed(trace[i])

ReverseConstructionOrder ==
  <<"inputBuffer", "outputBuffer", "muteControl", "volumeControl",
    "inputStream", "outputStream", "audioDevice">>

DeclarationOrder ==
  <<"audioDevice", "inputStream", "outputStream", "volumeControl",
    "muteControl", "inputBuffer", "outputBuffer">>

FreeCalls == {c \in DOMAIN calls : calls[c].op = "free" /\ calls[1].ret = "true"}

StepClass(op) ==
  CASE op = "IOUserAudioDevice::Create" -> "DeviceCreation"
    [] op \in {"IOUserAudioStream::Create(Output)",
               "IOUserAudioStream::Create(Input)"} -> "StreamCreation"
    [] op \in {"IOUserAudioLevelControl::Create",
               "IOUserAudioBooleanControl::Create"} -> "ControlCreation"
    [] op = "AddObject" -> "Registration"
    [] op \in {"IOBufferMemoryDescriptor::Create(outputBuffer)",
               "IOBufferMemoryDescriptor::Create(inputBuffer)"} -> "Allocation"
    [] op \in {"SetIOMemoryDescriptor(outputStream)",
               "SetIOMemoryDescriptor(inputStream)"} -> "BufferBinding"
    [] op = "StartIO" -> "IOStart"
    [] OTHER -> "other"

LastOf(c) == LET t == CallTrace(c) IN t[Len(t)]
FailedStarts == {c \in StartCalls : Returned(c) /\ StepFailed(LastOf(c))}

(* C9 as claimed: two Starts that failed in steps of different classes     *)
(* returned different status codes.                                        *)
C9_StatusIdentifiesStep ==
  \A c1 \in FailedStarts, c2 \in FailedStarts :
    (/\ StepClass(LastOf(c1).op) # "other"
     /\ StepClass(LastOf(c2).op) # "other"
     /\ StepClass(LastOf(c1).op) # StepClass(LastOf(c2).op))
    => calls[c1].ret # calls[c2].ret

(* C9 as amended: a failed Start returns kIOReturnNoMemory when a creation *)
(* of the device, a stream or a control returned null, and otherwise the   *)
(* status of the call that failed, unchanged; a Start returns a failure    *)
(* status only when one of its steps failed.                               *)
C9_StatusOfFailedStep ==
  \A c \in StartCalls :
    Returned(c) =>
      /\ StepFailed(LastOf(c)) =>
           calls[c].ret = IF LastOf(c).ret = "nullptr" THEN kIOReturnNoMemory
                          ELSE LastOf(c).ret
      /\ calls[c].ret \in FailureStatus <=> StepFailed(LastOf(c))
      /\ calls[c].ret \in FailureStatus \cup {kIOReturnSuccess}

C9_Witness ==
  \E c1 \in FailedStarts, c2 \in FailedStarts :
    /\ LastOf(c1).op = "IOUserAudioStream::Create(Output)"
    /\ calls[c1].ret = kIOReturnNoMemory
    /\ LastOf(c2).op = "AddObject"
    /\ calls[c2].ret = kIOReturnError

(* C10: after a successful Start the device has exactly one input and one  *)
(* output stream, the output stream is bound to the output buffer and the  *)
(* input stream to the input buffer, the two buffers are distinct, and     *)
(* each has 512 x bytesPerFrame = 4096 bytes.                              *)
C10_StreamsAndBuffers ==
  (Started /\ ivars # nullptr) =>
    LET d == ivars.audioDevice
        out == ivars.outputStream
        in == ivars.inputStream IN
    /\ heap[d].streams = {out, in}
    /\ Cardinality({st \in heap[d].streams : heap[st].dir = "Input"}) = 1
    /\ Cardinality({st \in heap[d].streams : heap[st].dir = "Output"}) = 1
    /\ heap[out].dir = "Output" /\ heap[in].dir = "Input"
    /\ heap[out].buffer = ivars.outputBuffer
    /\ heap[in].buffer = ivars.inputBuffer
    /\ heap[out].buffer # heap[in].buffer
    /\ \A st \in {out, in} :
         /\ heap[st].buffer \in DOMAIN heap
         /\ heap[heap[st].buffer].kind = "buffer"
         /\ heap[heap[st].buffer].size = 512 * heap[st].format.mBytesPerFrame
         /\ heap[heap[st].buffer].size = 4096

C10_Witness ==
  /\ Started
  /\ pc = "idle"
  /\ ivars # nullptr
  /\ heap[heap[ivars.inputStream].buffer].size = 4096

StopCalls == {c \in DOMAIN calls : calls[c].op = "Stop"}

(* C11: a Stop that finds a device calls StopIO and then RemoveObject on   *)
(* it, and a Stop that finds none calls neither; after a Stop of a started *)
(* driver the device does no I/O and is not registered, while the device,  *)
(* streams, controls and buffers are all still held by ivars; only free    *)
(* resets a slot.                                                          *)
C11_StopKeepsGraph ==
  /\ ivars # nullptr =>
       \A c \in StopCalls :
         LET t == CallTrace(c) IN
         IF ivars.audioDevice # NULL
           THEN /\ OpsOf(t) = <<"StopIO", "RemoveObject", "super::Stop">>
                /\ t[1].obj = ivars.audioDevice
                /\ t[2].obj = ivars.audioDevice
           ELSE OpsOf(t) = <<"super::Stop">>
  /\ (Started /\ StopCalls # {} /\ ivars # nullptr) =>
       /\ \A k \in 1..Len(Slots) : ivars[Slots[k]] \in DOMAIN heap
       /\ ivars.audioDevice \notin hostObjects
       /\ ~ heap[ivars.audioDevice].io
  /\ \A i \in DOMAIN trace :
       trace[i].ret = "reset" => calls[trace[i].call].op = "free"

C11_Witness ==
  /\ Started
  /\ calls[Len(calls)].op = "Stop"
  /\ ivars.inputBuffer \in DOMAIN heap
  /\ hostObjects = {}

(* a step in which the host called handler op *)
HandlerStep(op) == lastNotify'.op = op /\ calls' = calls

(* C12: StartDevice and StopDevice return success; StartDevice sets        *)
(* isRunning, StopDevice clears it, and neither changes anything else of   *)
(* the driver state.                                                       *)
C12_StartStopDeviceFrame ==
  [][/\ HandlerStep("StartDevice") =>
          /\ lastNotify'.ret = kIOReturnSuccess
          /\ ivars' = [ivars EXCEPT !.isRunning = TRUE]
          /\ ivars'.isRunning
          /\ UNCHANGED <<heap, hostObjects, serviceRegistered, pc, calls, trace,
                         nextId, fault>>
     /\ HandlerStep("StopDevice") =>
          /\ lastNotify'.ret = kIOReturnSuccess
          /\ ivars' = [ivars EXCEPT !.isRunning = FALSE]
          /\ ~ ivars'.isRunning
          /\ UNCHANGED <<heap, hostObjects, serviceRegistered, pc, calls, trace,
                         nextId, fault>>]_vars

C12_Witness ==
  /\ lastNotify.op = "StopDevice"
  /\ Started
  /\ ~ ivars.isRunning
  /\ ivars.volumeLevel = 1

ConfigHandlers == {"PerformDeviceConfigurationChange", "AbortDeviceConfigurationChange",
                   "HandleChangedStreamFormat"}

(* C13: PerformDeviceConfigurationChange, AbortDeviceConfigurationChange   *)
(* and HandleChangedStreamFormat return success in every lifecycle state   *)
(* and change nothing of the driver state.                                 *)
C13_ConfigHandlersFrame ==
  [][(\E op \in ConfigHandlers : HandlerStep(op)) =>
          /\ lastNotify'.ret = kIOReturnSuccess
          /\ UNCHANGED <<ivars, heap, hostObjects, serviceRegistered, pc, calls, trace,
                         nextId, fault>>]_vars

C13_Witness ==
  /\ lastNotify.op = "HandleChangedStreamFormat"
  /\ Started
  /\ StopCalls # {}
  /\ ivars.isRunning

(* C15: right after a successful init the state block has volumeLevel 1.0, *)
(* isMuted false, isRunning false and seven empty slots, and no object     *)
(* exists; init succeeds only when super::init and the allocation both     *)
(* succeeded, and a failed init leaves no state block and no defaults.     *)
C15_InitDefaults ==
  calls # <<>> =>
    /\ calls[1].op = "init"
    /\ calls[1].ret = "true" <=>
         (Len(CallTrace(1)) = 2 /\ \A k \in 1..2 : CallTrace(1)[k].ret \in {"true", "ok"})
    /\ (calls[1].ret = "true" /\ Len(calls) = 1) =>
         /\ ivars # nullptr
         /\ ivars.volumeLevel = 1 /\ ~ ivars.isMuted
         /\ (lastNotify = NoNotify => ~ ivars.isRunning)
         /\ \A k \in 1..Len(Slots) : ivars[Slots[k]] = NULL
         /\ DOMAIN heap = {} /\ hostObjects = {}
    /\ calls[1].ret = "false" => (ivars = nullptr /\ DOMAIN heap = {})

C15_Witness ==
  /\ Len(calls) = 1
  /\ calls[1].ret = "true"
  /\ lastNotify = NoNotify
  /\ ivars.volumeLevel = 1

StreamIds == {id \in DOMAIN heap : heap[id].kind = "stream"}

(* C16: every stream that exists has a current format with bytesPerFrame = *)
(* channels x (bits / 8) and one frame per packet, its available formats   *)
(* are that one format, and all streams have the same format.              *)
C16_StreamFormats ==
  /\ \A id \in StreamIds :
       LET f == heap[id].format IN
       /\ f.mBytesPerFrame = f.mChannelsPerFrame * (f.mBitsPerChannel \div 8)
       /\ f.mFramesPerPacket = 1
       /\ heap[id].formats = <<f>>
  /\ \A a \in StreamIds, b \in StreamIds : heap[a].format = heap[b].format

C16_Witness ==
  /\ Cardinality(StreamIds) = 2
  /\ lastNotify.op = "HandleChangedStreamFormat"
  /\ heap[ivars.inputStream].format.mBytesPerFrame = 8

(* C17: as long as the state block exists, volumeLevel is 1.0 and isMuted  *)
(* is false.                                                               *)
C17_VolumeAndMuteNeverWritten ==
  ivars # nullptr => (ivars.volumeLevel = 1 /\ ivars.isMuted = FALSE)

C17_Witness ==
  /\ Started
  /\ StopCalls # {}
  /\ lastNotify.op = "StartDevice"
  /\ ivars.isRunning
  /\ ivars.volumeLevel = 1 /\ ~ ivars.isMuted

(* C18: isRunning changes only in a step of StartDevice or StopDevice: no  *)
(* step of Start or Stop writes it.                                        *)
C18_OnlyDeviceHandlersWriteIsRunning ==
  [][(ivars # nullptr /\ ivars' # nullptr /\ ivars'.isRunning # ivars.isRunning) =>
       (HandlerStep("StartDevice") \/ HandlerStep("StopDevice"))]_vars

(* a Stop has just returned while isRunning was true, and it still is *)
C18_Witness ==
  /\ Started
  /\ calls[Len(calls)].op = "Stop"
  /\ lastNotify = NoNotify
  /\ ivars.isRunning

ConstructionOrder ==
  <<"audioDevice", "outputStream", "inputStream", "volumeControl", "muteControl",
    "outputBuffer", "inputBuffer">>

(* C19: while Start has been called once, the slots of ivars that hold an  *)
(* object are a prefix of the construction order; a buffer exists only     *)
(* after a successful AddObject, and the input buffer only with the output *)
(* buffer.                                                                 *)
C19_OwnedObjectsArePrefix ==
  (Count("Start") = 1 /\ ivars # nullptr) =>
    /\ \E n \in 0..Len(ConstructionOrder) :
         \A k \in 1..Len(ConstructionOrder) :
           (ivars[ConstructionOrder[k]] # NULL) <=> (k <= n)
    /\ (ivars.outputBuffer # NULL \/ ivars.inputBuffer # NULL) =>
         \E i \in DOMAIN trace : trace[i].op = "AddObject" /\ StepSucceeded(trace[i])
    /\ ivars.inputBuffer # NULL => ivars.outputBuffer # NULL

C19_Witness ==
  /\ Count("Start") = 1
  /\ pc = "idle"
  /\ ivars # nullptr
  /\ calls[Len(calls)].ret \in FailureStatus
  /\ ivars.outputBuffer # NULL
  /\ ivars.inputBuffer = NULL

====
